---- MODULE Spec2Model ----
(***************************************************************************)
(* Model of src/dineMe.py: the Lex code hook of the dining concierge bot.  *)
(* One conversation is a sequence of turns; each turn is one call of       *)
(* dispatch(intent_request).  The platform keeps the session attributes    *)
(* between turns: the attributes a turn returns are the input of the next, *)
(* and a turn that raises leaves the platform's copy as it was.            *)
(*                                                                         *)
(* Python values are tagged records, so that None, str and int stay        *)
(* distinct: None is [ty |-> "NoneType"], 'abc' is [ty |-> "str", s |->    *)
(* "abc"], 3 is [ty |-> "int", n |-> 3].  A str that holds JSON text is    *)
(* [ty |-> "str", json |-> object], the object mapping keys to JSON        *)
(* tokens.                                                                 *)
(***************************************************************************)
EXTENDS Integers, Sequences, FiniteSets, TLC

VARIABLES session,    \* the session attributes the platform holds
          request,    \* the event of the last turn
          sqsFault,   \* the SQS client call that failed in the last turn
          result,     \* what the last turn returned or raised, and sent
          queue       \* the messages sent to the queue so far

vars == <<session, request, sqsFault, result, queue>>

\* Bound on the number of messages the conversation leaves on the queue.
MaxQueue == 1

------------------------------------------------------------------------------
\* Python values

None == [ty |-> "NoneType"]

PyStr(s) == [ty |-> "str", s |-> s]

PyInt(n) == [ty |-> "int", n |-> n]

Dict(d) == [ty |-> "dict", d |-> d]

\* Python truthiness of a slot value, as in `not Location`.
Truthy(v) == CASE v.ty = "NoneType" -> FALSE
               [] v.ty = "str" /\ "s" \in DOMAIN v -> v.s # ""
               [] v.ty = "int" -> v.n # 0
               [] v.ty = "dict" -> DOMAIN v.d # {}
               [] OTHER -> TRUE

SlotNames == {"Location", "Cuisine", "DiningTime", "NumberOfPeople", "Phone"}

------------------------------------------------------------------------------
\* json.dumps / json.loads

JNull == [t |-> "null"]

JString(s) == [t |-> "string", s |-> s]

JNumber(n) == [t |-> "number", n |-> n]

\* json.dumps of the reservation with the hotel intent's type tag added to
\* the record.
json_dumps_tagged_hotel(d) ==
    [ty |-> "str",
     json |-> [k \in DOMAIN d \cup {"ReservationType"} |->
                  IF k = "ReservationType" THEN [t |-> "string", s |-> "Hotel"]
                  ELSE IF d[k].ty = "NoneType" THEN [t |-> "null"]
                  ELSE [t |-> "string", s |-> d[k].s]]]

\* json.dumps of a dict whose values are None or str.
json_dumps(d) ==
    [ty |-> "str",
     json |-> [k \in DOMAIN d |-> IF d[k].ty = "NoneType" THEN JNull
                                  ELSE JString(d[k].s)]]

\* json.loads of a text holding a JSON object: null -> None, string -> str,
\* number -> int.
json_loads(text) ==
    [k \in DOMAIN text.json |->
        CASE text.json[k].t = "null" -> None
          [] text.json[k].t = "string" -> PyStr(text.json[k].s)
          [] text.json[k].t = "number" -> PyInt(text.json[k].n)]

------------------------------------------------------------------------------
\* Calendar dates.  Days is a run of consecutive days; a date value is an
\* index into it.

Days == <<"2024-04-29", "2024-04-30", "2024-05-01", "2024-05-02",
          "2024-05-03", "2024-05-04", "2024-05-05">>

\* Other spellings dateutil.parser.parse accepts, with their canonical form.
AltSpellings == [s \in {"05/01/2024"} |-> "2024-05-01"]

DayIndex(c) == CHOOSE i \in 1..Len(Days) : Days[i] = c

\* dateutil.parser.parse(text).date(): the day of a str that spells a date;
\* "ValueError" for any other str, "TypeError" for a value that is not a str.
dateutil_parse(v) ==
    IF v.ty # "str" THEN [raised |-> "TypeError"]
    ELSE IF \E i \in 1..Len(Days) : Days[i] = v.s
         THEN [raised |-> "", day |-> DayIndex(v.s)]
    ELSE IF v.s \in DOMAIN AltSpellings
         THEN [raised |-> "", day |-> DayIndex(AltSpellings[v.s])]
    ELSE [raised |-> "ValueError"]

isvalid_date(date) == dateutil_parse(date).raised = ""

valid_cities == {"new york", "los angeles", "chicago", "houston",
    "philadelphia", "phoenix", "san antonio", "san diego", "dallas",
    "san jose", "austin", "jacksonville", "san francisco", "indianapolis",
    "columbus", "fort worth", "charlotte", "detroit", "el paso", "seattle",
    "denver", "washington dc", "memphis", "boston", "nashville", "baltimore",
    "portland"}

\* str.lower() on the city spellings the model uses.
Lower(s) == CASE s = "Chicago" -> "chicago"
              [] s = "BOSTON" -> "boston"
              [] OTHER -> s

isvalid_city(city) == Lower(city.s) \in valid_cities

\* add_days(date, number_of_days): parse, add a timedelta, format as
\* %Y-%m-%d.  timedelta(days=...) raises TypeError unless given a number.
add_days(date, number_of_days) ==
    LET parsed == dateutil_parse(date) IN
    IF parsed.raised # "" THEN [raised |-> parsed.raised]
    ELSE IF number_of_days.ty # "int" THEN [raised |-> "TypeError"]
    ELSE LET new_date == parsed.day + number_of_days.n IN
         IF new_date \in 1..Len(Days)
         THEN [raised |-> "", value |-> PyStr(Days[new_date])]
         ELSE [raised |-> "", value |-> PyStr("out of the modelled days")]

------------------------------------------------------------------------------
\* Dictionaries: a dict is a function from its keys.

Put(d, k, v) == [x \in DOMAIN d \cup {k} |-> IF x = k THEN v ELSE d[x]]

\* try_ex(lambda: d.pop(k)): the key is removed if it is there.
Pop(d, k) == [x \in DOMAIN d \ {k} |-> d[x]]

\* try_ex(lambda: d[k]): the value, or None on KeyError.
try_ex(d, k) == IF k \in DOMAIN d THEN d[k] ELSE None

Returned(response) == [raised |-> "", response |-> response, sent |-> <<>>]

Raised(error) == [raised |-> error, sent |-> <<>>]

------------------------------------------------------------------------------
\* Helpers that build the responses

PlainText(content) == [contentType |-> "PlainText", content |-> content]

elicit_slot(session_attributes, intent_name, slots, slot_to_elicit, message) ==
    [sessionAttributes |-> session_attributes,
     dialogAction |-> [type |-> "ElicitSlot",
                       intentName |-> intent_name,
                       slots |-> slots,
                       slotToElicit |-> slot_to_elicit,
                       message |-> message]]

confirm_intent(session_attributes, intent_name, slots, message) ==
    [sessionAttributes |-> session_attributes,
     dialogAction |-> [type |-> "ConfirmIntent",
                       intentName |-> intent_name,
                       slots |-> slots,
                       message |-> message]]

close(session_attributes, fulfillment_state, message) ==
    [sessionAttributes |-> session_attributes,
     dialogAction |-> [type |-> "Close",
                       fulfillmentState |-> fulfillment_state,
                       message |-> message]]

delegate(session_attributes, slots) ==
    [sessionAttributes |-> session_attributes,
     dialogAction |-> [type |-> "Delegate", slots |-> slots]]

------------------------------------------------------------------------------
\* book_car

\* The module calls validate_book_car but neither defines nor imports it: the
\* lookup of the global name raises NameError at the call.
validate_book_car(slots) == [raised |-> "NameError"]

\* confirmation_status == 'Denied'
book_car_denied(intent_request, session_attributes0, confirmation_context) ==
    LET session_attributes ==
            Pop(Pop(session_attributes0, "confirmationContext"),
                "currentReservation")
    IN  IF confirmation_context = PyStr("AutoPopulate")
        THEN Returned(elicit_slot(
                 session_attributes,
                 intent_request.currentIntent.name,
                 [k \in SlotNames |-> None],
                 "PickUpCity",
                 PlainText("Where would you like to make your reservation?")))
        ELSE Returned(delegate(session_attributes,
                               intent_request.currentIntent.slots))

\* The slots and message of the auto-populated suggestion, or the error the
\* subscripts and add_days raise on the prior reservation's record.
auto_populate(last) ==
    IF "Location" \notin DOMAIN last \/ "CheckInDate" \notin DOMAIN last
       \/ "Nights" \notin DOMAIN last
    THEN [raised |-> "KeyError"]
    ELSE LET ReturnDate == add_days(last["CheckInDate"], last["Nights"]) IN
         IF ReturnDate.raised # "" THEN [raised |-> ReturnDate.raised]
         ELSE [raised |-> "",
               slots |-> [k \in {"PickUpCity", "PickUpDate", "ReturnDate",
                                 "CarType", "DriverAge"} |->
                             CASE k = "PickUpCity" -> last["Location"]
                               [] k = "PickUpDate" -> last["CheckInDate"]
                               [] k = "ReturnDate" -> ReturnDate.value
                               [] OTHER -> None],
               message |-> [contentType |-> "PlainText",
                            content |-> <<"Is this car rental for your {} night stay in {} on {}?",
                                          last["Nights"], last["Location"],
                                          last["CheckInDate"]>>]]

\* confirmation_status == 'None'
book_car_none(intent_request, session_attributes, slots, last_confirmed_reservation, confirmation_context) ==
    IF /\ \/ \A k \in SlotNames : ~Truthy(slots[k])
          \/ confirmation_context = PyStr("AutoPopulate")
       /\ Truthy(last_confirmed_reservation)
       /\ try_ex(last_confirmed_reservation.d, "ReservationType")
              = PyStr("Hotel")
    THEN LET suggestion == auto_populate(last_confirmed_reservation.d) IN
         IF suggestion.raised # "" THEN Raised(suggestion.raised)
         ELSE Returned(confirm_intent(
                  Put(session_attributes, "confirmationContext",
                      PyStr("AutoPopulate")),
                  intent_request.currentIntent.name,
                  suggestion.slots,
                  suggestion.message))
    ELSE Returned(delegate(session_attributes,
                           intent_request.currentIntent.slots))

\* confirmation_status == 'Confirmed'
book_car_confirmed(intent_request, session_attributes0, slots, confirmation_context) ==
    LET session_attributes == Pop(session_attributes0, "confirmationContext")
    IN  IF confirmation_context = PyStr("AutoPopulate") /\ ~Truthy(slots["Phone"])
        THEN Returned(elicit_slot(session_attributes,
                                  intent_request.currentIntent.name,
                                  intent_request.currentIntent.slots,
                                  "Phone",
                                  PlainText("Please specify your Phone Number?")))
        ELSE IF confirmation_context = PyStr("AutoPopulate")
                /\ ~Truthy(slots["Location"])
        THEN Returned(elicit_slot(session_attributes,
                                  intent_request.currentIntent.name,
                                  intent_request.currentIntent.slots,
                                  "Location",
                                  PlainText("What location ?")))
        ELSE Returned(delegate(session_attributes,
                               intent_request.currentIntent.slots))

\* book_car_fulfill with the five attributes filled from the wrong slots
\* (Phone carrying the Location) and the confirmed reservation not recorded.
book_car_fulfill_misfiled(session_attributes, reservation, slots, sqs) ==
    IF sqs \in {"list_queues", "get_queue_url"} THEN Raised("ClientError")
    ELSE IF \E k \in SlotNames : slots[k].ty # "str"
    THEN Raised("ParamValidationError")
    ELSE IF sqs = "send_message" THEN Raised("ClientError")
    ELSE [raised |-> "",
          response |->
              close(Pop(session_attributes, "currentReservation"),
                    "Fulfilled",
                    PlainText("Thanks, I have placed your reservation.")),
          sent |-> << [MessageBody |-> "Dining Queue",
                       DelaySeconds |-> 5,
                       MessageAttributes |->
                           [k \in SlotNames |->
                               [DataType |-> "String",
                                StringValue |-> IF k = "Phone"
                                                THEN slots["Location"].s
                                                ELSE slots[k].s]]] >>]

\* book_car_fulfill without `del session_attributes['currentReservation']`.
book_car_fulfill_keeps_current(session_attributes, reservation, slots, sqs) ==
    IF sqs \in {"list_queues", "get_queue_url"} THEN Raised("ClientError")
    ELSE IF \E k \in SlotNames : slots[k].ty # "str"
    THEN Raised("ParamValidationError")
    ELSE IF sqs = "send_message" THEN Raised("ClientError")
    ELSE [raised |-> "",
          response |->
              close(Put(session_attributes,
                        "lastConfirmedReservation", reservation),
                    "Fulfilled",
                    PlainText("Thanks, I have placed your reservation.")),
          sent |-> << [MessageBody |-> "Dining Queue",
                       DelaySeconds |-> 5,
                       MessageAttributes |->
                           [k \in SlotNames |->
                               [DataType |-> "String",
                                StringValue |-> slots[k].s]]] >>]

\* book_car_fulfill with the failure of send_message caught and ignored.
book_car_fulfill_swallows_failure(session_attributes, reservation, slots, sqs) ==
    IF sqs \in {"list_queues", "get_queue_url"} THEN Raised("ClientError")
    ELSE IF \E k \in SlotNames : slots[k].ty # "str"
    THEN Raised("ParamValidationError")
    ELSE [raised |-> "",
          response |->
              close(Put(Pop(session_attributes, "currentReservation"),
                        "lastConfirmedReservation", reservation),
                    "Fulfilled",
                    PlainText("Thanks, I have placed your reservation.")),
          sent |-> IF sqs = "send_message" THEN <<>>
                   ELSE << [MessageBody |-> "Dining Queue",
                            DelaySeconds |-> 5,
                            MessageAttributes |->
                                [k \in SlotNames |->
                                    [DataType |-> "String",
                                     StringValue |-> slots[k].s]]] >>]

\* book_car_fulfill with the send_message call left out.
book_car_fulfill_no_send(session_attributes, reservation, slots, sqs) ==
    IF sqs \in {"list_queues", "get_queue_url"} THEN Raised("ClientError")
    ELSE Returned(close(Put(Pop(session_attributes, "currentReservation"),
                            "lastConfirmedReservation", reservation),
                        "Fulfilled",
                        PlainText("Thanks, I have placed your reservation.")))

\* The path after the dialog code hook: the three calls on the SQS client,
\* then the session bookkeeping and Close.  sqs names the client call the
\* collaborator fails ("" when none does).  The client checks the request
\* before sending it: a StringValue that is not a str is refused.
book_car_fulfill(session_attributes, reservation, slots, sqs) ==
    IF sqs \in {"list_queues", "get_queue_url"} THEN Raised("ClientError")
    ELSE IF \E k \in SlotNames : slots[k].ty # "str"
    THEN Raised("ParamValidationError")
    ELSE IF sqs = "send_message" THEN Raised("ClientError")
    ELSE [raised |-> "",
          response |->
              close(Put(Pop(session_attributes, "currentReservation"),
                        "lastConfirmedReservation", reservation),
                    "Fulfilled",
                    PlainText("Thanks, I have placed your reservation.")),
          sent |-> << [MessageBody |-> "Dining Queue",
                       DelaySeconds |-> 5,
                       MessageAttributes |->
                           [k \in SlotNames |->
                               [DataType |-> "String",
                                StringValue |-> slots[k].s]]] >>]

EmptyDict == [k \in {} |-> None]

\* The dialog code hook, after the snapshot into currentReservation.
book_car_dialog(intent_request, session_attributes, slots, last_confirmed_reservation, confirmation_context, reservation, sqs) ==
    LET validation_result == validate_book_car(intent_request.currentIntent.slots)
        confirmation_status == intent_request.currentIntent.confirmationStatus
    IN  IF validation_result.raised # "" THEN Raised(validation_result.raised)
        ELSE IF ~validation_result.isValid
        THEN Returned(elicit_slot(
                 session_attributes,
                 intent_request.currentIntent.name,
                 [slots EXCEPT ![validation_result.violatedSlot] = None],
                 validation_result.violatedSlot,
                 validation_result.message))
        ELSE IF confirmation_status = "Denied"
        THEN book_car_denied(intent_request, session_attributes,
                             confirmation_context)
        ELSE IF confirmation_status = "None"
        THEN book_car_none(intent_request, session_attributes, slots,
                           last_confirmed_reservation, confirmation_context)
        ELSE IF confirmation_status = "Confirmed"
        THEN book_car_confirmed(intent_request, session_attributes, slots,
                                confirmation_context)
        ELSE book_car_fulfill(session_attributes, reservation, slots, sqs)

book_car(intent_request, sqs) ==
    LET slots == intent_request.currentIntent.slots
        session_attributes0 ==
            IF intent_request.sessionAttributes # None
            THEN intent_request.sessionAttributes.d ELSE EmptyDict
        raw == try_ex(session_attributes0, "lastConfirmedReservation")
        last_confirmed_reservation ==
            IF Truthy(raw) THEN Dict(json_loads(raw)) ELSE raw
        confirmation_context == try_ex(session_attributes0, "confirmationContext")
        reservation == json_dumps([k \in SlotNames |-> slots[k]])
        session_attributes ==
            Put(session_attributes0, "currentReservation", reservation)
    IN  IF intent_request.invocationSource = "DialogCodeHook"
        THEN book_car_dialog(intent_request, session_attributes, slots,
                             last_confirmed_reservation, confirmation_context,
                             reservation, sqs)
        ELSE book_car_fulfill(session_attributes, reservation, slots, sqs)

------------------------------------------------------------------------------
\* Intents

\* welcome_intent closing with a fresh mapping in place of the session
\* attributes it received.
welcome_intent_fresh_session(intent_request) ==
    Returned(close(EmptyDict, "Fulfilled",
                   PlainText("Welcome, How may I help you !.")))

welcome_intent(intent_request) ==
    LET session_attributes ==
            IF intent_request.sessionAttributes # None
            THEN intent_request.sessionAttributes.d ELSE EmptyDict
    IN  Returned(close(session_attributes, "Fulfilled",
                       PlainText("Welcome, How may I help you !.")))

\* thank_intent handing back the request's sessionAttributes as received,
\* without reading null as the empty mapping.
thank_intent_keeps_null(intent_request) ==
    LET session_attributes ==
            IF intent_request.sessionAttributes # None
            THEN intent_request.sessionAttributes.d ELSE None
    IN  Returned(close(session_attributes, "Fulfilled",
                       PlainText("Thanks, It was really nice talking to you !.")))

thank_intent(intent_request) ==
    LET session_attributes ==
            IF intent_request.sessionAttributes # None
            THEN intent_request.sessionAttributes.d ELSE EmptyDict
    IN  Returned(close(session_attributes, "Fulfilled",
                       PlainText("Thanks, It was really nice talking to you !.")))

\* dispatch with a default handler in place of the final raise.
dispatch_default_handler(intent_request, sqs) ==
    LET intent_name == intent_request.currentIntent.name IN
    IF intent_name = "DiningSuggestionsIntent"
    THEN book_car(intent_request, sqs)
    ELSE IF intent_name = "ThankYouIntent" THEN thank_intent(intent_request)
    ELSE welcome_intent(intent_request)

dispatch(intent_request, sqs) ==
    LET intent_name == intent_request.currentIntent.name IN
    IF intent_name = "DiningSuggestionsIntent"
    THEN book_car(intent_request, sqs)
    ELSE IF intent_name = "ThankYouIntent" THEN thank_intent(intent_request)
    ELSE IF intent_name = "GreetingIntent" THEN welcome_intent(intent_request)
    ELSE Raised("Exception")

lambda_handler(event, sqs) == dispatch(event, sqs)

------------------------------------------------------------------------------
\* The conversation

\* Values the platform may hand over for each reservation slot.
SlotValues ==
    [Location |-> {None, PyStr("Chicago"), PyStr("atlantis")},
     Cuisine |-> {None, PyStr("thai")},
     DiningTime |-> {None, PyStr("someday")},
     NumberOfPeople |-> {None, PyStr("4")},
     Phone |-> {None, PyStr("5551234")}]

SlotAssignments ==
    [Location : SlotValues.Location, Cuisine : SlotValues.Cuisine,
     DiningTime : SlotValues.DiningTime,
     NumberOfPeople : SlotValues.NumberOfPeople, Phone : SlotValues.Phone]

\* Records of a prior reservation that another intent of the bot, or the
\* client, may have left under lastConfirmedReservation.
HotelRecord(CheckInDate, Nights) ==
    [ty |-> "str",
     json |-> [k \in {"ReservationType", "Location", "CheckInDate", "Nights"} |->
                  CASE k = "ReservationType" -> JString("Hotel")
                    [] k = "Location" -> JString("Chicago")
                    [] k = "CheckInDate" -> JString(CheckInDate)
                    [] k = "Nights" -> Nights]]

HotelNoNights ==
    [ty |-> "str",
     json |-> [k \in {"ReservationType", "Location", "CheckInDate"} |->
                  CASE k = "ReservationType" -> JString("Hotel")
                    [] k = "Location" -> JString("Chicago")
                    [] k = "CheckInDate" -> JString("2024-05-01")]]

CarRecord ==
    [ty |-> "str",
     json |-> [k \in {"ReservationType", "PickUpCity"} |->
                  CASE k = "ReservationType" -> JString("Car")
                    [] k = "PickUpCity" -> JString("Chicago")]]

PriorReservations ==
    {HotelRecord("2024-05-01", JNumber(3)), HotelRecord("2024-05-01", JString("3")),
     HotelRecord("05/01/2024", JNumber(1)), HotelNoNights, CarRecord}

\* Session attributes a conversation may start with.  currentReservation is
\* written by book_car only, so a conversation starts without it.
InitialSessions ==
    {EmptyDict}
    \cup {Put(EmptyDict, "confirmationContext", PyStr("AutoPopulate"))}
    \cup {Put(EmptyDict, "lastConfirmedReservation", r) : r \in PriorReservations}
    \cup {Put(Put(EmptyDict, "lastConfirmedReservation", r),
              "confirmationContext", PyStr("AutoPopulate")) : r \in PriorReservations}

ConfirmationStatuses == {"None", "Confirmed", "Denied"}

\* Names of the collaborator's calls that may fail; "" is no failure.
SqsFailures == {"", "list_queues", "get_queue_url", "send_message"}

OtherIntents == {"BookCar", "BookHotel", ""}

\* The platform sends null for an empty session, or the empty mapping.
SessionInputs == {Dict(session)} \cup (IF session = EmptyDict THEN {None} ELSE {})

Event(name, slots, confirmationStatus, invocationSource, sessionAttributes) ==
    [bot |-> [name |-> "DiningConcierge"],
     userId |-> "user",
     invocationSource |-> invocationSource,
     sessionAttributes |-> sessionAttributes,
     currentIntent |-> [name |-> name,
                        slots |-> slots,
                        confirmationStatus |-> confirmationStatus]]

NoRequest == Event("", EmptyDict, "", "", None)

NoResult == [raised |-> "no turn yet", sent |-> <<>>]

Init ==
    /\ session \in InitialSessions
    /\ request = NoRequest
    /\ sqsFault = ""
    /\ result = NoResult
    /\ queue = <<>>

\* One turn: the platform invokes the handler with its copy of the session
\* attributes and keeps the attributes of the response; a turn that raises
\* leaves the platform's copy unchanged.
Turn(event, sqs) ==
    LET r == lambda_handler(event, sqs) IN
    /\ Len(queue) + Len(r.sent) <= MaxQueue
    /\ request' = event
    /\ sqsFault' = sqs
    /\ result' = r
    /\ session' = IF r.raised = "" THEN r.response.sessionAttributes ELSE session
    /\ queue' = queue \o r.sent

DialogCodeHook ==
    \E slots \in SlotAssignments, status \in ConfirmationStatuses,
       sa \in SessionInputs :
        Turn(Event("DiningSuggestionsIntent", slots, status, "DialogCodeHook", sa), "")

FulfillmentCodeHook ==
    \E slots \in SlotAssignments, status \in ConfirmationStatuses,
       sa \in SessionInputs, sqs \in SqsFailures :
        Turn(Event("DiningSuggestionsIntent", slots, status, "FulfillmentCodeHook", sa), sqs)

ThankYou ==
    \E sa \in SessionInputs :
        Turn(Event("ThankYouIntent", EmptyDict, "None", "FulfillmentCodeHook", sa), "")

Greeting ==
    \E sa \in SessionInputs :
        Turn(Event("GreetingIntent", EmptyDict, "None", "FulfillmentCodeHook", sa), "")

Unsupported ==
    \E name \in OtherIntents, sa \in SessionInputs :
        Turn(Event(name, EmptyDict, "None", "FulfillmentCodeHook", sa), "")

Next == DialogCodeHook \/ FulfillmentCodeHook \/ ThankYou \/ Greeting \/ Unsupported

Spec == Init /\ [][Next]_vars

\* A conversation that starts with no hotel reservation and no
\* confirmationContext in its session attributes.
FreshSessions ==
    {s \in InitialSessions :
        /\ "confirmationContext" \notin DOMAIN s
        /\ \/ "lastConfirmedReservation" \notin DOMAIN s
           \/ try_ex(json_loads(s["lastConfirmedReservation"]), "ReservationType")
                  # PyStr("Hotel")}

InitFresh ==
    /\ session \in FreshSessions
    /\ request = NoRequest
    /\ sqsFault = ""
    /\ result = NoResult
    /\ queue = <<>>

SpecFresh == InitFresh /\ [][Next]_vars

------------------------------------------------------------------------------
\* Vocabulary of the properties

KnownIntents == {"DiningSuggestionsIntent", "ThankYouIntent", "GreetingIntent"}

TurnDone == result # NoResult

HasReturned == TurnDone /\ result.raised = ""

HasRaised == TurnDone /\ result.raised # ""

IsReservationTurn == TurnDone /\ request.currentIntent.name = "DiningSuggestionsIntent"

IsDialogTurn == IsReservationTurn /\ request.invocationSource = "DialogCodeHook"

IsFulfillmentTurn == IsReservationTurn /\ request.invocationSource = "FulfillmentCodeHook"

InputSlots == request.currentIntent.slots

InputStatus == request.currentIntent.confirmationStatus

\* The session attributes the turn received, null read as the empty mapping.
InputSession ==
    IF request.sessionAttributes = None THEN EmptyDict
    ELSE request.sessionAttributes.d

InputContext == try_ex(InputSession, "confirmationContext")

\* The input holds a prior reservation of type Hotel.
InputHasHotel ==
    /\ "lastConfirmedReservation" \in DOMAIN InputSession
    /\ try_ex(json_loads(InputSession["lastConfirmedReservation"]),
              "ReservationType") = PyStr("Hotel")

AllSlotsFilled == \A k \in SlotNames : InputSlots[k] # None

AllSlotsUnset == \A k \in SlotNames : InputSlots[k] = None

DirectiveIs(type) == HasReturned /\ result.response.dialogAction.type = type

ReturnedSlots == result.response.dialogAction.slots

ReturnedSession == result.response.sessionAttributes

------------------------------------------------------------------------------
\* Properties

\* C1: in a fulfillment turn of the reservation intent with all five slots
\* filled, in which the queue collaborator accepts the calls, the handler
\* sends exactly one message whose five attributes are the five slot values,
\* returns Close(Fulfilled), and the returned session attributes hold the
\* JSON of the five slots under lastConfirmedReservation and have no
\* currentReservation.
C1_FulfillmentSubmitsReservation ==
    (IsFulfillmentTurn /\ AllSlotsFilled /\ sqsFault = "") =>
        /\ Len(result.sent) = 1
        /\ DOMAIN result.sent[1].MessageAttributes = SlotNames
        /\ \A k \in SlotNames :
              /\ result.sent[1].MessageAttributes[k].DataType = "String"
              /\ PyStr(result.sent[1].MessageAttributes[k].StringValue) = InputSlots[k]
        /\ DirectiveIs("Close")
        /\ result.response.dialogAction.fulfillmentState = "Fulfilled"
        /\ "lastConfirmedReservation" \in DOMAIN ReturnedSession
        /\ json_loads(ReturnedSession["lastConfirmedReservation"]) = InputSlots
        /\ "currentReservation" \notin DOMAIN ReturnedSession

C1_Witness ==
    /\ IsFulfillmentTurn /\ AllSlotsFilled /\ sqsFault = ""
    /\ DirectiveIs("Close")
    /\ Len(queue) = 1
    /\ "lastConfirmedReservation" \in DOMAIN session

\* C2: a DialogCodeHook turn with confirmationStatus None and no prior hotel
\* reservation in the session attributes returns Delegate with the slots as
\* they came in.
C2_DelegateWithoutHotel ==
    (IsDialogTurn /\ InputStatus = "None" /\ ~InputHasHotel) =>
        /\ DirectiveIs("Delegate")
        /\ ReturnedSlots = InputSlots

\* C3: a DialogCodeHook turn with confirmationStatus None, all slots unset and
\* the hotel record {Hotel, Chicago, 2024-05-01, Nights "3"} under
\* lastConfirmedReservation returns ConfirmIntent with PickUpDate 2024-05-01
\* and ReturnDate 2024-05-04, and sets confirmationContext to AutoPopulate.
C3_AutoPopulateFromHotel ==
    (/\ IsDialogTurn /\ InputStatus = "None" /\ AllSlotsUnset
     /\ try_ex(InputSession, "lastConfirmedReservation")
            = HotelRecord("2024-05-01", JString("3"))) =>
        /\ DirectiveIs("ConfirmIntent")
        /\ ReturnedSlots["PickUpDate"] = PyStr("2024-05-01")
        /\ ReturnedSlots["ReturnDate"] = PyStr("2024-05-04")
        /\ try_ex(ReturnedSession, "confirmationContext") = PyStr("AutoPopulate")

\* C4: a DialogCodeHook turn with confirmationStatus Denied and
\* confirmationContext AutoPopulate returns ElicitSlot for Location with all
\* five slots unset, and session attributes without confirmationContext and
\* currentReservation.
C4_DeniedSuggestionRestarts ==
    (IsDialogTurn /\ InputStatus = "Denied"
     /\ InputContext = PyStr("AutoPopulate")) =>
        /\ DirectiveIs("ElicitSlot")
        /\ result.response.dialogAction.slotToElicit = "Location"
        /\ ReturnedSlots = [k \in SlotNames |-> None]
        /\ "confirmationContext" \notin DOMAIN ReturnedSession
        /\ "currentReservation" \notin DOMAIN ReturnedSession

\* C5: a DialogCodeHook turn with confirmationStatus Confirmed returns session
\* attributes without confirmationContext; ElicitSlot for Phone if the context
\* was AutoPopulate and Phone is unset, else ElicitSlot for Location if
\* Location is unset, else Delegate with the slots as they came in.
C5_ConfirmedContinues ==
    (IsDialogTurn /\ InputStatus = "Confirmed") =>
        /\ HasReturned
        /\ "confirmationContext" \notin DOMAIN ReturnedSession
        /\ IF InputContext = PyStr("AutoPopulate") /\ InputSlots["Phone"] = None
           THEN /\ DirectiveIs("ElicitSlot")
                /\ result.response.dialogAction.slotToElicit = "Phone"
           ELSE IF InputSlots["Location"] = None
           THEN /\ DirectiveIs("ElicitSlot")
                /\ result.response.dialogAction.slotToElicit = "Location"
           ELSE /\ DirectiveIs("Delegate")
                /\ ReturnedSlots = InputSlots

\* C6: whenever a turn of the reservation handler returns a directive other
\* than ConfirmIntent, the returned session attributes have no
\* confirmationContext.
C6_ContextClearedUnlessConfirming ==
    (IsReservationTurn /\ HasReturned /\ ~DirectiveIs("ConfirmIntent")) =>
        "confirmationContext" \notin DOMAIN ReturnedSession

\* C7: over the turns of a conversation, whenever a turn returns Close the
\* returned session attributes have no currentReservation.
C7_NoCurrentReservationAfterClose ==
    DirectiveIs("Close") => "currentReservation" \notin DOMAIN ReturnedSession

C7_Witness ==
    /\ DirectiveIs("Close")
    /\ request.currentIntent.name = "GreetingIntent"
    /\ "lastConfirmedReservation" \in DOMAIN session
    /\ Len(queue) = 1

\* C8: every turn of the reservation intent completes by returning one of the
\* four directives, and does not end in an error (the queue collaborator
\* accepting the calls).
C8_ReservationTurnReturnsDirective ==
    (IsReservationTurn /\ sqsFault = "") =>
        /\ HasReturned
        /\ result.response.dialogAction.type
               \in {"ElicitSlot", "ConfirmIntent", "Delegate", "Close"}

\* C9: dispatching an intent name outside the three known names raises the
\* unsupported-intent error and returns no directive; dispatching a known name
\* never raises that error.
C9_UnsupportedIntentRaises ==
    TurnDone =>
        IF request.currentIntent.name \notin KnownIntents
        THEN result.raised = "Exception" /\ "response" \notin DOMAIN result
        ELSE result.raised # "Exception"

C9_Witness ==
    /\ TurnDone
    /\ request.currentIntent.name \notin KnownIntents
    /\ result.raised = "Exception"

\* A slot the validators reject: a Location that is no valid city, or a
\* DiningTime that does not parse as a date.
MalformedSlots ==
    {k \in {"Location", "DiningTime"} :
        /\ InputSlots[k] # None
        /\ IF k = "Location" THEN ~isvalid_city(InputSlots[k])
           ELSE ~isvalid_date(InputSlots[k])}

\* C10: a DialogCodeHook turn with a malformed city or date does not end in a
\* fatal error whatever confirmationStatus and confirmationContext are: it
\* returns ElicitSlot for a violated slot, with that slot cleared.
C10_ValidationBeforeBranching ==
    (IsDialogTurn /\ MalformedSlots # {}) =>
        /\ DirectiveIs("ElicitSlot")
        /\ result.response.dialogAction.slotToElicit \in MalformedSlots
        /\ ReturnedSlots[result.response.dialogAction.slotToElicit] = None

\* C11: a DialogCodeHook turn with confirmationStatus Denied whose
\* confirmationContext is not AutoPopulate returns Delegate with the slots as
\* they came in; the returned session attributes have neither
\* confirmationContext nor currentReservation, and every other key is as it
\* was received.
C11_DeniedOwnReservationDelegates ==
    (IsDialogTurn /\ InputStatus = "Denied"
     /\ InputContext # PyStr("AutoPopulate")) =>
        /\ DirectiveIs("Delegate")
        /\ ReturnedSlots = InputSlots
        /\ DOMAIN ReturnedSession
               = DOMAIN InputSession \ {"confirmationContext", "currentReservation"}
        /\ \A k \in DOMAIN ReturnedSession : ReturnedSession[k] = InputSession[k]

\* C12: a DialogCodeHook turn with confirmationStatus None or Confirmed returns
\* session attributes whose currentReservation is the JSON encoding of exactly
\* the five slot values received in the turn.
C12_SnapshotOfInputSlots ==
    (IsDialogTurn /\ InputStatus \in {"None", "Confirmed"}) =>
        /\ HasReturned
        /\ "currentReservation" \in DOMAIN ReturnedSession
        /\ json_loads(ReturnedSession["currentReservation"]) = InputSlots

\* C13: a turn whose sessionAttributes is null ends exactly as the same
\* request with an empty mapping does: the same directive, the same returned
\* session attributes, the same messages sent, or the same error.
C13_NullSessionAsEmpty ==
    (TurnDone /\ request.sessionAttributes = None) =>
        result = lambda_handler([request EXCEPT !.sessionAttributes = Dict(EmptyDict)],
                                sqsFault)

C13_Witness ==
    /\ TurnDone
    /\ request.sessionAttributes = None
    /\ request.currentIntent.name = "ThankYouIntent"
    /\ DirectiveIs("Close")
    /\ ReturnedSession = EmptyDict

\* C14: a ThankYouIntent or GreetingIntent turn returns Close(Fulfilled) with
\* the intent's fixed message, sends nothing to the queue, and returns the
\* session attributes it received, every key and value unchanged.
C14_GreetingAndThanksEchoSession ==
    (TurnDone /\ request.currentIntent.name \in {"ThankYouIntent", "GreetingIntent"}) =>
        /\ DirectiveIs("Close")
        /\ result.response.dialogAction.fulfillmentState = "Fulfilled"
        /\ result.response.dialogAction.message =
               PlainText(IF request.currentIntent.name = "ThankYouIntent"
                         THEN "Thanks, It was really nice talking to you !."
                         ELSE "Welcome, How may I help you !.")
        /\ result.sent = <<>>
        /\ ReturnedSession = InputSession
        /\ session = InputSession

C14_Witness ==
    /\ TurnDone
    /\ request.currentIntent.name = "GreetingIntent"
    /\ DirectiveIs("Close")
    /\ "confirmationContext" \in DOMAIN InputSession
    /\ "lastConfirmedReservation" \in DOMAIN InputSession

\* C15: when a call on the queue collaborator fails in a fulfillment turn, the
\* turn ends in that error: no directive is returned, nothing is on the queue
\* for the turn, and the session attributes the platform holds, with their
\* lastConfirmedReservation, stay as they were received.
C15_QueueFailurePropagates ==
    (IsFulfillmentTurn /\ sqsFault # "") =>
        /\ HasRaised
        /\ "response" \notin DOMAIN result
        /\ result.sent = <<>>
        /\ session = InputSession

C15_Witness ==
    /\ IsFulfillmentTurn
    /\ AllSlotsFilled
    /\ sqsFault = "send_message"
    /\ result.raised = "ClientError"
    /\ queue = <<>>

\* C16: a DialogCodeHook turn returns ConfirmIntent exactly when
\* confirmationStatus is None, lastConfirmedReservation holds a hotel
\* reservation, and either no slot is filled or confirmationContext is already
\* AutoPopulate.
C16_ConfirmIntentExactlyWhenSuggesting ==
    IsDialogTurn =>
        (DirectiveIs("ConfirmIntent") <=>
            /\ InputStatus = "None"
            /\ InputHasHotel
            /\ AllSlotsUnset \/ InputContext = PyStr("AutoPopulate"))

\* The turn was a reservation turn that returned Close(Fulfilled).
FulfilledClose ==
    /\ IsReservationTurn
    /\ DirectiveIs("Close")
    /\ result.response.dialogAction.fulfillmentState = "Fulfilled"

\* C17: a DialogCodeHook turn sends nothing to the queue and leaves
\* lastConfirmedReservation as it was received (absent stays absent), in the
\* attributes it returns and in those the platform holds; and over the turns
\* of a conversation the queue grows by one message in exactly the turns in
\* which the reservation handler returns Close(Fulfilled), so the number of
\* messages sent equals the number of such turns.
C17_QueueWrittenOnlyInFulfillment ==
    /\ [](IsDialogTurn =>
            /\ result.sent = <<>>
            /\ try_ex(session, "lastConfirmedReservation")
                   = try_ex(InputSession, "lastConfirmedReservation")
            /\ HasReturned =>
                   try_ex(ReturnedSession, "lastConfirmedReservation")
                       = try_ex(InputSession, "lastConfirmedReservation"))
    /\ [][Len(queue') = Len(queue) + (IF FulfilledClose' THEN 1 ELSE 0)]_vars

C17_Witness ==
    /\ IsDialogTurn
    /\ InputStatus \in ConfirmationStatuses
    /\ "lastConfirmedReservation" \in DOMAIN InputSession
    /\ Len(queue) = 1

SessionHasHotel ==
    /\ "lastConfirmedReservation" \in DOMAIN session
    /\ try_ex(json_loads(session["lastConfirmedReservation"]),
              "ReservationType") = PyStr("Hotel")

\* C18: in a conversation that starts with no hotel reservation under
\* lastConfirmedReservation and no confirmationContext, every
\* lastConfirmedReservation the handler writes is a record of the five dining
\* slots without a ReservationType; the session never holds a hotel
\* reservation, no turn returns ConfirmIntent, and confirmationContext is
\* never set.
C18_NoAutoPopulateFromOwnOutput ==
    /\ FulfilledClose =>
           DOMAIN json_loads(ReturnedSession["lastConfirmedReservation"]) = SlotNames
    /\ ~SessionHasHotel
    /\ "confirmationContext" \notin DOMAIN session
    /\ ~DirectiveIs("ConfirmIntent")
    /\ HasReturned => "confirmationContext" \notin DOMAIN ReturnedSession

C18_Witness ==
    /\ IsDialogTurn
    /\ InputStatus = "None"
    /\ AllSlotsUnset
    /\ "lastConfirmedReservation" \in DOMAIN InputSession
    /\ DOMAIN json_loads(InputSession["lastConfirmedReservation"]) = SlotNames
    /\ Len(queue) = 1

====
